---- MODULE Spec2Model ----
(***************************************************************************)
(* Model of the subprocess launcher/watcher (app_exec.py), its Maya        *)
(* specialisation (maya_exec.py) and the console logger (IO.py).           *)
(*                                                                         *)
(* Every run() invocation is a thread of control of its own, numbered in   *)
(* the order the invocations begin; invocation n launches process n and,   *)
(* when it spawns one, watcher thread n.                                   *)
(***************************************************************************)
EXTENDS Integers, Sequences, FiniteSets, TLC

\* Number of run() invocations explored (sequential or overlapping).
MaxCalls == 2

Calls == 1 .. MaxCalls

\* Paths are sequences of path tokens; None is Python's None.
None == <<"None">>

WhichPath(name) == <<"PATH", name>>

HardCoded == <<"C:/Program Files/Autodesk/Maya2023/bin\\mayabatch.exe">>

GivenPath == <<"given.exe">>

\* The executers: two plain AppExecuter instances, a1 built with a name_exe
\* only and a2 with an explicit path_exe, and one MayabatchExecuter.
Insts == {"a1", "a2", "m1"}

ClassOf(i) == IF i = "m1" THEN "Maya" ELSE "App"

\* NAME_EXE of an instance: the class attribute of MayabatchExecuter, the
\* name_exe constructor argument of a plain AppExecuter.
NAME_EXE(i) == IF ClassOf(i) = "Maya" THEN "mayabatch.exe" ELSE "app.exe"

\* The path_exe argument of the constructor.
CtorPath(i) == IF i = "a2" THEN GivenPath ELSE None

\* The launcher targets Windows (mayabatch.exe under C:/Program Files):
\* temporary paths hold backslashes.
Platform == "nt"

VARIABLES
    onPath,     \* executable names shutil.which finds
    files,      \* paths of the files that exist
    path_exe,   \* self.path_exe of each instance
    WATCHER,    \* self.WATCHER of each instance: 0 (None) or a watcher id
    PROCESSES,  \* the class-level queue shared by every executer class
    ncalls,     \* run() invocations begun so far
    pc,         \* position of each run() invocation
    inst,       \* the instance an invocation runs on
    cargs,      \* positional arguments the caller gave
    ckwargs,    \* keyword arguments the caller gave, in order
    path_errors,\* local path_errors of MayabatchExecuter.run
    path_py,    \* local path_py of MayabatchExecuter.run
    vres,       \* what validate() gave the invocation: "-", "True", "False", "raise"
    ret,        \* how an invocation ended: "-", "None", "proc", "raised"
    pstate,     \* process: "none", "running", "exited"
    pargs,      \* process.args
    pattr,      \* process.path_errors when the attribute is set, else None
    wpc,        \* watcher thread: "none", "sleep", "loop", "get", "decide", "dead"
    running,    \* local list `running` of each watcher thread
    crashed,    \* the watcher thread died of an exception raised by notify
    notified,   \* per process: the notify calls made for it, <<class, outcome>>
    logIn,      \* arguments of a log() call: message, level, width
    logPc,      \* position inside _log_to_console
    logS,       \* its local s
    logLines,   \* its local lines
    logI,       \* characters of the message consumed
    logOut      \* what print() received

vars == <<onPath, files, path_exe, WATCHER, PROCESSES, ncalls,
          pc, inst, cargs, ckwargs, path_errors, path_py, vres,
          ret, pstate, pargs, pattr, wpc, running, crashed, notified,
          logIn, logPc, logS, logLines, logI, logOut>>

callVars == <<pc, inst, cargs, ckwargs, path_errors, path_py, vres, ret, ncalls>>

procVars == <<pstate, pargs, pattr>>

watchVars == <<wpc, running, crashed, notified>>

logVars == <<logIn, logPc, logS, logLines, logI, logOut>>

----------------------------------------------------------------------------
\* File system and path helpers

RECURSIVE Replace(_)
\* str.replace('\\', '\\\\'): every backslash token is doubled.
Replace(p) ==
    IF p = <<>> THEN <<>>
    ELSE IF Head(p) = "\\" THEN <<"\\", "\\">> \o Replace(Tail(p))
         ELSE <<Head(p)>> \o Replace(Tail(p))

RECURSIVE Collapse(_)
Collapse(p) ==
    IF Len(p) < 2 THEN p
    ELSE IF Head(p) = "\\" /\ Head(Tail(p)) = "\\" THEN Collapse(Tail(p))
         ELSE <<Head(p)>> \o Collapse(Tail(p))

\* The file a path names: Windows treats a run of separators inside a path as
\* one separator, POSIX temporary paths hold no backslash at all.
FsName(plat, p) == IF plat = "nt" THEN Collapse(p) ELSE p

\* tempfile.NamedTemporaryFile(delete=False).name of invocation n.
TempPath(plat, kind, n) ==
    IF plat = "nt" THEN <<"C:", "\\", "Temp", "\\", kind, ToString(n)>>
    ELSE <<"/", "tmp", "/", kind, ToString(n)>>

IsFile(fs, p) == FsName(Platform, p) \in fs

Remove(fs, p) == fs \ {FsName(Platform, p)}

\* shutil.which
Which(name) == IF name \in onPath THEN WhichPath(name) ELSE None

\* _get_exe_path of the instance's class
GetExePath(i) ==
    IF ClassOf(i) = "Maya"
    THEN (IF Which(NAME_EXE(i)) # None THEN Which(NAME_EXE(i)) ELSE HardCoded)
    ELSE Which(NAME_EXE(i))

\* AppExecuter.validate: the value of self.path_exe afterwards.
ValidatePath(i) == IF path_exe[i] = None THEN GetExePath(i) ELSE path_exe[i]

\* AppExecuter.validate: "True", "False", or "raise" (os.path.isfile(None)
\* raises TypeError).
ValidateResult(i) ==
    IF path_exe[i] = None
    THEN (IF GetExePath(i) = None THEN "raise"
          ELSE IF ~IsFile(files, GetExePath(i)) THEN "False"
          ELSE "True")
    ELSE "True"

----------------------------------------------------------------------------
\* Argument lists. An argument is a sequence of string tokens.

Dash(k) == <<"-">> \o k

RECURSIVE Flags(_)
\* for kwarg in kwargs: args.append(f'-{kwarg}'); args.append(kwargs[kwarg])
Flags(kw) ==
    IF kw = <<>> THEN <<>>
    ELSE <<Dash(Head(kw)[1]), Head(kw)[2]>> \o Flags(Tail(kw))

\* The list AppExecuter.run hands to Popen.
BuildArgs(args, kw) == args \o Flags(kw)

\* Unpacking a dict with a single star yields its keys, in order.
Keys(kw) == [j \in 1 .. Len(kw) |-> kw[j][1]]

\* The mel expression that makes mayabatch execute the temporary script.
MelCommand(py) == <<"python(\"exec(open(r'">> \o py \o <<"', 'r').read())\")">>

\* Positional arguments MayabatchExecuter.run passes to AppExecuter.run:
\* super().run(..., *args, *kwargs).
MayaBaseArgs(args, kw) == args \o Keys(kw)

\* Keyword arguments MayabatchExecuter.run passes to AppExecuter.run.
MayaBaseKwargs(mfile, py) ==
    IF mfile # None
    THEN << <<(<<"file">>), mfile>>, <<(<<"command">>), MelCommand(py)>> >>
    ELSE << <<(<<"command">>), MelCommand(py)>> >>

Scene == <<"scene.ma">>

MissingScene == <<"missing.ma">>

----------------------------------------------------------------------------
\* run(): the caller's side

Alive(w) == w # 0 /\ wpc[w] \notin {"none", "dead"}

\* An invocation ends: it returns None or a process, or an exception leaves it.
Return(n, how) ==
    /\ pc' = [pc EXCEPT ![n] = "done"]
    /\ ret' = [ret EXCEPT ![n] = how]

\* A run() invocation begins on instance i.
Enter(n, i, args, kw) ==
    /\ n = ncalls + 1
    /\ n \in Calls
    /\ ncalls' = n
    /\ inst' = [inst EXCEPT ![n] = i]
    /\ cargs' = [cargs EXCEPT ![n] = args]
    /\ ckwargs' = [ckwargs EXCEPT ![n] = kw]

\* AppExecuter.run from its validate() call to Popen: validate() fails
\* (return None), raises, or succeeds, and then Popen raises when the
\* executable is no file and starts the process otherwise. `whenNone` is where
\* the invocation goes on when None is returned.
Launch(n, i, args, kw, whenNone) ==
    /\ vres' = [vres EXCEPT ![n] = ValidateResult(i)]
    /\ path_exe' = [path_exe EXCEPT ![i] =
                       IF ValidateResult(i) = "raise" THEN @ ELSE ValidatePath(i)]
    /\ CASE ValidateResult(i) = "raise" ->
                Return(n, "raised") /\ UNCHANGED <<pstate, pargs>>
         [] ValidateResult(i) = "False" ->
                /\ IF whenNone = "done" THEN Return(n, "None")
                   ELSE pc' = [pc EXCEPT ![n] = whenNone] /\ ret' = ret
                /\ UNCHANGED <<pstate, pargs>>
         [] OTHER ->
                IF IsFile(files, ValidatePath(i))
                THEN /\ pstate' = [pstate EXCEPT ![n] = "running"]
                     /\ pargs' = [pargs EXCEPT ![n] = BuildArgs(args, kw)]
                     /\ pc' = [pc EXCEPT ![n] = "check"]
                     /\ ret' = ret
                ELSE Return(n, "raised") /\ UNCHANGED <<pstate, pargs>>

\* AppExecuter.run on a plain AppExecuter, up to Popen.
Run(n, i, args, kw) ==
    /\ ClassOf(i) = "App"
    /\ Enter(n, i, args, kw)
    /\ Launch(n, i, args, kw, "done")
    /\ UNCHANGED <<onPath, files, WATCHER, PROCESSES, path_errors, path_py,
                   pattr, watchVars, logVars>>

\* The temporary files MayabatchExecuter.run creates.
MayaTempFiles(n) == {TempPath(Platform, "err", n), TempPath(Platform, "py", n)}

\* MayabatchExecuter.run up to Popen inside its call of AppExecuter.run.
MayaRun(n, i, mfile, command, func, args, kw) ==
    /\ ClassOf(i) = "Maya"
    /\ Enter(n, i, args, kw)
    /\ IF \/ (mfile # None /\ ~IsFile(files, mfile))
          \/ (command = None /\ func = None)
       THEN /\ Return(n, "None")
            /\ UNCHANGED <<files, path_errors, path_py, path_exe, vres, pstate, pargs>>
       ELSE /\ files' = files \cup MayaTempFiles(n)
            /\ path_errors' = [path_errors EXCEPT ![n] = TempPath(Platform, "err", n)]
            /\ path_py' = [path_py EXCEPT ![n] = Replace(TempPath(Platform, "py", n))]
            /\ Launch(n, i, MayaBaseArgs(args, kw),
                      MayaBaseKwargs(mfile, Replace(TempPath(Platform, "py", n))),
                      "finish")
    /\ UNCHANGED <<onPath, WATCHER, PROCESSES, pattr, watchVars, logVars>>

\* if not self.WATCHER or not self.WATCHER.is_alive():
CheckWatcher(n) ==
    /\ pc[n] = "check"
    /\ pc' = [pc EXCEPT ![n] = IF Alive(WATCHER[inst[n]]) THEN "put" ELSE "start"]
    /\ UNCHANGED <<onPath, files, path_exe, WATCHER, PROCESSES, ncalls, inst,
                   cargs, ckwargs, path_errors, path_py, vres, ret,
                   procVars, watchVars, logVars>>

\* self.WATCHER = Thread(...); self.WATCHER.start()
StartWatcher(n) ==
    /\ pc[n] = "start"
    /\ WATCHER' = [WATCHER EXCEPT ![inst[n]] = n]
    /\ wpc' = [wpc EXCEPT ![n] = "sleep"]
    /\ pc' = [pc EXCEPT ![n] = "put"]
    /\ UNCHANGED <<onPath, files, path_exe, PROCESSES, ncalls, inst, cargs,
                   ckwargs, path_errors, path_py, vres, ret,
                   procVars, running, crashed, notified, logVars>>

\* self.PROCESSES.put(process); return process
Put(n) ==
    /\ pc[n] = "put"
    /\ PROCESSES' = Append(PROCESSES, n)
    /\ IF ClassOf(inst[n]) = "Maya"
       THEN pc' = [pc EXCEPT ![n] = "finish"] /\ ret' = ret
       ELSE Return(n, "proc")
    /\ UNCHANGED <<onPath, files, path_exe, WATCHER, ncalls, inst, cargs,
                   ckwargs, path_errors, path_py, vres,
                   procVars, watchVars, logVars>>

\* A cleanup that forgets the error file.
CleanupScriptOnly(fs, n) ==
    IF IsFile(fs, path_py[n]) THEN Remove(fs, path_py[n]) ELSE fs

\* The cleanup of a failed launch: each temporary file is removed if it is
\* a file.
Cleanup(fs, n) ==
    LET f1 == IF IsFile(fs, path_py[n]) THEN Remove(fs, path_py[n]) ELSE fs
    IN  IF IsFile(f1, path_errors[n]) THEN Remove(f1, path_errors[n]) ELSE f1

\* MayabatchExecuter.run after AppExecuter.run returned.
MayaFinish(n) ==
    /\ pc[n] = "finish"
    /\ IF pstate[n] # "none"
       THEN /\ pattr' = [pattr EXCEPT ![n] = path_errors[n]]
            /\ Return(n, "proc")
            /\ files' = files
       ELSE /\ files' = Cleanup(files, n)
            /\ Return(n, "None")
            /\ pattr' = pattr
    /\ UNCHANGED <<onPath, path_exe, WATCHER, PROCESSES, ncalls, inst, cargs,
                   ckwargs, path_errors, path_py, vres,
                   pstate, pargs, watchVars, logVars>>

----------------------------------------------------------------------------
\* The subprocess itself

\* A running subprocess exits. The script mayabatch executes ends with
\* `finally: os.remove(path_py)`, so a Maya subprocess takes its script file
\* with it.
ProcessExit(n) ==
    /\ pstate[n] = "running"
    /\ pstate' = [pstate EXCEPT ![n] = "exited"]
    /\ files' = IF ClassOf(inst[n]) = "Maya"
                THEN Remove(files, TempPath(Platform, "py", n))
                ELSE files
    /\ UNCHANGED <<onPath, path_exe, WATCHER, PROCESSES, callVars, pargs,
                   pattr, watchVars, logVars>>

----------------------------------------------------------------------------
\* _watch_processes: watcher thread w runs cls._watch_processes, cls being the
\* class of the instance whose run() spawned it.

WatcherClass(w) == ClassOf(inst[w])

\* What cls.notify(process) does: "ok" or "raised".
\* AppExecuter.notify only reads and prints. MayabatchExecuter.notify opens
\* process.path_errors (AttributeError when the attribute was never set,
\* FileNotFoundError when the file is gone) and removes the file.
NotifyOutcome(cls, p) ==
    IF cls = "App" THEN "ok"
    ELSE IF pattr[p] = None THEN "raised"
    ELSE IF ~IsFile(files, pattr[p]) THEN "raised"
    ELSE "ok"

NotifyFiles(cls, p) ==
    IF cls = "Maya" /\ NotifyOutcome(cls, p) = "ok"
    THEN Remove(files, pattr[p])
    ELSE files

\* sleep(0.5); running = []
WatchSleep(w) ==
    /\ wpc[w] = "sleep"
    /\ running' = [running EXCEPT ![w] = <<>>]
    /\ wpc' = [wpc EXCEPT ![w] = "loop"]
    /\ UNCHANGED <<onPath, files, path_exe, WATCHER, PROCESSES, callVars,
                   procVars, crashed, notified, logVars>>

\* while not queue.empty():
WatchTest(w) ==
    /\ wpc[w] = "loop"
    /\ wpc' = [wpc EXCEPT ![w] = IF PROCESSES # <<>> THEN "get" ELSE "decide"]
    /\ UNCHANGED <<onPath, files, path_exe, WATCHER, PROCESSES, callVars,
                   procVars, running, crashed, notified, logVars>>

\* if not running: break  /  for process in running: queue.put(process)
WatchDecide(w) ==
    /\ wpc[w] = "decide"
    /\ IF running[w] = <<>>
       THEN wpc' = [wpc EXCEPT ![w] = "dead"] /\ PROCESSES' = PROCESSES
       ELSE wpc' = [wpc EXCEPT ![w] = "sleep"] /\ PROCESSES' = PROCESSES \o running[w]
    /\ UNCHANGED <<onPath, files, path_exe, WATCHER, callVars, procVars,
                   running, crashed, notified, logVars>>

\* process = queue.get() blocks while the queue is empty; then poll, and either
\* keep the process in `running` or notify.
WatchGet(w) ==
    /\ wpc[w] = "get"
    /\ PROCESSES # <<>>
    /\ LET p == Head(PROCESSES) IN
       /\ PROCESSES' = Tail(PROCESSES)
       /\ IF pstate[p] = "running"
          THEN /\ running' = [running EXCEPT ![w] = Append(@, p)]
               /\ wpc' = [wpc EXCEPT ![w] = "loop"]
               /\ UNCHANGED <<files, crashed, notified>>
          ELSE /\ notified' = [notified EXCEPT ![p] =
                      Append(@, <<WatcherClass(w), NotifyOutcome(WatcherClass(w), p)>>)]
               /\ files' = NotifyFiles(WatcherClass(w), p)
               /\ IF NotifyOutcome(WatcherClass(w), p) = "ok"
                  THEN wpc' = [wpc EXCEPT ![w] = "loop"] /\ crashed' = crashed
                  ELSE /\ wpc' = [wpc EXCEPT ![w] = "dead"]
                       /\ crashed' = [crashed EXCEPT ![w] = TRUE]
               /\ running' = running
    /\ UNCHANGED <<onPath, path_exe, WATCHER, callVars, procVars, logVars>>

----------------------------------------------------------------------------
\* IO.py: _log_to_console. Strings are sequences of one-character tokens.

\* strftime("%H:%M:%S", localtime()): eight characters.
TimeStr == <<"H", "H", ":", "M", "M", ":", "S", "S">>

\* level.value.upper()
LevelUpper(level) ==
    CASE level = "TRACE" -> <<"T", "R", "A", "C", "E">>
      [] level = "INFO" -> <<"I", "N", "F", "O">>
      [] level = "WARN" -> <<"W", "A", "R", "N", "I", "N", "G">>
      [] level = "ERROR" -> <<"E", "R", "R", "O", "R">>

\* s = f'{time_str}  [{level.value.upper()}]  '
LogPrefix(level) ==
    TimeStr \o <<" ", " ", "[">> \o LevelUpper(level) \o <<"]", " ", " ">>

\* indent = ''.join([' ' for _ in s])
LogIndent(level) == [j \in 1 .. Len(LogPrefix(level)) |-> " "]

\* A line ended one character late.
LineEndsLate(c, s, width) == c = "\n" \/ Len(s) > width

\* if c == '\n' or len(s) >= width:
LineEnds(c, s, width) == c = "\n" \/ Len(s) >= width

RECURSIVE Join(_)
\* '\n'.join(lines)
Join(lines) ==
    IF lines = <<>> THEN <<>>
    ELSE IF Len(lines) = 1 THEN Head(lines)
    ELSE Head(lines) \o <<"\n">> \o Join(Tail(lines))

\* s = prefix; indent; lines = []
LogBegin ==
    /\ logPc = "start"
    /\ logS' = LogPrefix(logIn.level)
    /\ logLines' = <<>>
    /\ logI' = 0
    /\ logPc' = "loop"
    /\ UNCHANGED <<onPath, files, path_exe, WATCHER, PROCESSES, callVars,
                   procVars, watchVars, logIn, logOut>>

\* One pass of `for c in message:`
LogChar ==
    /\ logPc = "loop"
    /\ logI < Len(logIn.message)
    /\ LET c == logIn.message[logI + 1]
           s == Append(logS, c)
       IN  IF LineEnds(c, s, logIn.width)
           THEN logLines' = Append(logLines, s) /\ logS' = LogIndent(logIn.level)
           ELSE logLines' = logLines /\ logS' = s
    /\ logI' = logI + 1
    /\ UNCHANGED <<onPath, files, path_exe, WATCHER, PROCESSES, callVars,
                   procVars, watchVars, logIn, logPc, logOut>>

\* lines.append(s); print('\n'.join(lines))
LogPrint ==
    /\ logPc = "loop"
    /\ logI = Len(logIn.message)
    /\ logLines' = Append(logLines, logS)
    /\ logOut' = Join(Append(logLines, logS))
    /\ logPc' = "done"
    /\ UNCHANGED <<onPath, files, path_exe, WATCHER, PROCESSES, callVars,
                   procVars, watchVars, logIn, logS, logI>>

----------------------------------------------------------------------------
\* Initial states and specifications

LogIdle ==
    /\ logIn = [message |-> <<>>, level |-> "INFO", width |-> 0]
    /\ logPc = "idle"
    /\ logS = <<>>
    /\ logLines = <<>>
    /\ logI = 0
    /\ logOut = <<>>

NoCalls ==
    /\ path_exe = [i \in Insts |-> CtorPath(i)]
    /\ WATCHER = [i \in Insts |-> 0]
    /\ PROCESSES = <<>>
    /\ ncalls = 0
    /\ pc = [n \in Calls |-> "idle"]
    /\ inst = [n \in Calls |-> "a1"]
    /\ cargs = [n \in Calls |-> <<>>]
    /\ ckwargs = [n \in Calls |-> <<>>]
    /\ path_errors = [n \in Calls |-> None]
    /\ path_py = [n \in Calls |-> None]
    /\ vres = [n \in Calls |-> "-"]
    /\ ret = [n \in Calls |-> "-"]
    /\ pstate = [n \in Calls |-> "none"]
    /\ pargs = [n \in Calls |-> <<>>]
    /\ pattr = [n \in Calls |-> None]
    /\ wpc = [n \in Calls |-> "none"]
    /\ running = [n \in Calls |-> <<>>]
    /\ crashed = [n \in Calls |-> FALSE]
    /\ notified = [n \in Calls |-> <<>>]

\* The executers as constructed, in any environment: which executables the
\* search path holds, and whether the hard-coded and the explicitly given
\* executable exist.
Init ==
    /\ onPath \in SUBSET {"app.exe", "mayabatch.exe"}
    /\ \E extra \in SUBSET {HardCoded, GivenPath} :
          files = {WhichPath(x) : x \in onPath} \cup extra \cup {Scene}
    /\ NoCalls
    /\ LogIdle

\* What callers pass in the concurrency specification.
MayaFiles == {Scene, MissingScene}

Commands == {None, <<"cmd">>}

Funcs == {None, <<"module", "function">>}

Next ==
    \/ \E n \in Calls, i \in Insts : Run(n, i, <<>>, <<>>)
    \/ \E n \in Calls, i \in Insts, mf \in MayaFiles, c \in Commands, f \in Funcs :
          MayaRun(n, i, mf, c, f, <<>>, <<>>)
    \/ \E n \in Calls : CheckWatcher(n)
    \/ \E n \in Calls : StartWatcher(n)
    \/ \E n \in Calls : Put(n)
    \/ \E n \in Calls : MayaFinish(n)
    \/ \E n \in Calls : ProcessExit(n)
    \/ \E w \in Calls : WatchSleep(w)
    \/ \E w \in Calls : WatchTest(w)
    \/ \E w \in Calls : WatchGet(w)
    \/ \E w \in Calls : WatchDecide(w)

Spec == Init /\ [][Next]_vars

\* Threads are scheduled fairly: a run() invocation that has begun goes on to
\* its end and a watcher thread that can take a step takes it. Nothing obliges
\* a caller to call run() again, nor a subprocess to exit.
Fairness ==
    \A n \in Calls :
        /\ WF_vars(CheckWatcher(n))
        /\ WF_vars(StartWatcher(n))
        /\ WF_vars(Put(n))
        /\ WF_vars(MayaFinish(n))
        /\ WF_vars(WatchSleep(n))
        /\ WF_vars(WatchTest(n))
        /\ WF_vars(WatchGet(n))
        /\ WF_vars(WatchDecide(n))

FairSpec == Init /\ [][Next]_vars /\ Fairness

\* The run() invocations and the subprocesses alone, in every interleaving,
\* the watcher threads still being in their first sleep(0.5). What run()
\* returns and which temporary files it leaves is decided here: a watcher
\* touches no file but the error file of a process that run() returned.
NextRun ==
    \/ \E n \in Calls, i \in Insts : Run(n, i, <<>>, <<>>)
    \/ \E n \in Calls, i \in Insts, mf \in MayaFiles, c \in Commands, f \in Funcs :
          MayaRun(n, i, mf, c, f, <<>>, <<>>)
    \/ \E n \in Calls : CheckWatcher(n)
    \/ \E n \in Calls : StartWatcher(n)
    \/ \E n \in Calls : Put(n)
    \/ \E n \in Calls : MayaFinish(n)
    \/ \E n \in Calls : ProcessExit(n)

SpecRun == Init /\ [][NextRun]_vars

\* Arguments callers pass in the argument specification: the first k of
\* arg1, arg2, ... and the first k of key1=val1, key2=val2, ...
MaxArgs == 2

MaxKwargs == 2

ArgChoices == {[j \in 1 .. k |-> <<"arg", ToString(j)>>] : k \in 0 .. MaxArgs}

KwChoices ==
    {[j \in 1 .. k |-> << <<"key", ToString(j)>>, <<"val", ToString(j)>> >>] :
        k \in 0 .. MaxKwargs}

\* The launches alone, with every shape of argument list: what reaches Popen
\* is decided before the process is queued.
NextArgs ==
    \/ \E n \in Calls, i \in Insts, a \in ArgChoices, k \in KwChoices :
          Run(n, i, a, k)
    \/ \E n \in Calls, i \in Insts, mf \in {None, Scene}, a \in ArgChoices,
          k \in KwChoices :
          MayaRun(n, i, mf, <<"cmd">>, None, a, k)

SpecArgs == Init /\ [][NextArgs]_vars

\* Messages, levels and widths of the logger specification.
MaxMsgLen == 5

MinWidth == 16

MaxWidth == 24

Chars == {"a", "\n"}

Messages == UNION {[1 .. k -> Chars] : k \in 0 .. MaxMsgLen}

Levels == {"TRACE", "INFO", "WARN", "ERROR"}

InitLog ==
    /\ onPath = {}
    /\ files = {Scene}
    /\ NoCalls
    /\ logIn \in [message : Messages, level : Levels, width : MinWidth .. MaxWidth]
    /\ logPc = "start"
    /\ logS = <<>>
    /\ logLines = <<>>
    /\ logI = 0
    /\ logOut = <<>>

NextLog == LogBegin \/ LogChar \/ LogPrint

SpecLog == InitLog /\ [][NextLog]_vars

----------------------------------------------------------------------------
\* Properties

Classes == {"App", "Maya"}

WatchersOf(c) == {w \in Calls : Alive(w) /\ WatcherClass(w) = c}

InQueue(n) == \E j \in 1 .. Len(PROCESSES) : PROCESSES[j] = n

InProgress(n) == pc[n] \notin {"idle", "done"}

\* C1: at most one watcher thread of an executer class is alive at any time,
\* whatever instances and threads the run() calls come from.
C1_OneWatcherPerClass == \A c \in Classes : Cardinality(WatchersOf(c)) <= 1

\* Two watcher threads of the same class alive at once.
C1_TwoWatchers == \E c \in Classes : Cardinality(WatchersOf(c)) >= 2

\* C2: under fair scheduling every subprocess run() started and that exited is
\* eventually taken out of the queue and handed to notify.
C2_EventuallyNotified ==
    \A n \in Calls : (pstate[n] = "exited") ~> (notified[n] # <<>>)

\* An exited process sits in the queue, was never notified, and no thread is
\* left that could take it out: no watcher is alive and no run() is under way.
C2_Stranded ==
    \E n \in Calls :
        /\ pstate[n] = "exited" /\ InQueue(n) /\ notified[n] = <<>>
        /\ \A w \in Calls : ~Alive(w)
        /\ \A m \in Calls : ~InProgress(m)

\* Every run() that will be called has returned and every process has exited.
AllExited ==
    /\ ncalls = MaxCalls
    /\ \A n \in Calls : pc[n] = "done" /\ pstate[n] # "running"

NoWatcherAlive == \A w \in Calls : ~Alive(w)

\* C3: once every tracked subprocess has exited and run() is called no more,
\* every watcher thread eventually terminates, and the queue is empty once
\* the last of them has stopped.
C3_WatchersTerminate ==
    /\ AllExited ~> NoWatcherAlive
    /\ [](AllExited /\ NoWatcherAlive => PROCESSES = <<>>)

\* A watcher thread blocked in queue.get() with nothing left to arrive.
C3_BlockedForever ==
    /\ AllExited
    /\ PROCESSES = <<>>
    /\ \E w \in Calls : wpc[w] = "get"

\* shutil.which finds nothing and, for Maya, the hard-coded path is no file.
NotFound(i) ==
    /\ Which(NAME_EXE(i)) = None
    /\ ClassOf(i) = "Maya" => ~IsFile(files, HardCoded)

\* C4: on an instance built without path_exe whose executable cannot be found,
\* every run() returns None without raising, starts no subprocess, queues
\* nothing and starts no watcher thread.
C4_NotFoundReturnsNone ==
    \A n \in Calls :
        (pc[n] = "done" /\ CtorPath(inst[n]) = None /\ NotFound(inst[n])) =>
            /\ ret[n] = "None"
            /\ pstate[n] = "none"
            /\ ~InQueue(n)
            /\ wpc[n] = "none"

\* A run() on such an instance ended with an exception.
C4_Raised ==
    \E n \in Calls :
        /\ pc[n] = "done" /\ CtorPath(inst[n]) = None /\ NotFound(inst[n])
        /\ ret[n] = "raised"

\* C5: when MayabatchExecuter.run returns None, no temporary script file and
\* no temporary error file of that call exists any more.
C5_NoTempFilesAfterNone ==
    \A n \in Calls :
        (pc[n] = "done" /\ ClassOf(inst[n]) = "Maya" /\ ret[n] = "None") =>
            MayaTempFiles(n) \cap files = {}

\* A MayabatchExecuter.run that created its temporary files, was refused by
\* the base launcher, and returned None.
C5_FailedLaunch ==
    \E n \in Calls :
        /\ pc[n] = "done" /\ ClassOf(inst[n]) = "Maya" /\ ret[n] = "None"
        /\ path_errors[n] # None /\ vres[n] = "False"
        /\ MayaTempFiles(n) \cap files = {}

\* Process n was launched by MayabatchExecuter.run.
MayaProcess(n) == pstate[n] # "none" /\ ClassOf(inst[n]) = "Maya"

\* C6: the error file of every subprocess MayabatchExecuter.run started is
\* eventually deleted by notify once the subprocess has exited, whatever other
\* executers launch and watch at the same time.
C6_ErrorFileDeleted ==
    \A n \in Calls :
        (MayaProcess(n) /\ pstate[n] = "exited") ~>
            ~IsFile(files, TempPath(Platform, "err", n))

\* A Maya process was notified without its error file being deleted.
C6_NotifiedButKept ==
    \E n \in Calls :
        /\ MayaProcess(n) /\ notified[n] # <<>>
        /\ IsFile(files, TempPath(Platform, "err", n))

\* C9: MayabatchExecuter resolves to the path found on the search path when
\* there is one and to the hard-coded path otherwise, and validate() returns
\* True only if the path the executer will launch is an existing file, on the
\* first and on every later call.
C9_ValidateMeansFile ==
    \A n \in Calls :
        (ClassOf(inst[n]) = "Maya" /\ vres[n] # "-") =>
            /\ path_exe[inst[n]] =
                  (IF Which(NAME_EXE(inst[n])) # None
                   THEN Which(NAME_EXE(inst[n])) ELSE HardCoded)
            /\ vres[n] = "True" => IsFile(files, path_exe[inst[n]])

\* validate() said True on a later call although the resolved path is no file.
C9_TrueWithoutFile ==
    \E n \in Calls :
        /\ ClassOf(inst[n]) = "Maya" /\ vres[n] = "True"
        /\ ~IsFile(files, path_exe[inst[n]])

\* C10: notify is invoked for a subprocess only after it was seen exited and
\* at most once, with any number of watcher threads; a subprocess still
\* running when polled is put back into the queue and not notified.
C10_NotifyOnceAfterExit ==
    /\ \A n \in Calls : notified[n] # <<>> => pstate[n] = "exited"
    /\ \A n \in Calls : Len(notified[n]) <= 1
    /\ \A w \in Calls : wpc[w] = "dead" => running[w] = <<>>

\* A watcher thread died holding a process it had polled as running.
C10_DiedHolding == \E w \in Calls : wpc[w] = "dead" /\ running[w] # <<>>

RECURSIVE IsSubseq(_, _)
\* The elements of a occur in b, in the same order.
IsSubseq(a, b) ==
    IF a = <<>> THEN TRUE
    ELSE IF b = <<>> THEN FALSE
    ELSE IF Head(a) = Head(b) THEN IsSubseq(Tail(a), Tail(b))
    ELSE IsSubseq(a, Tail(b))

HasFlag(args, k, v) ==
    \E j \in 1 .. Len(args) - 1 : args[j] = Dash(k) /\ args[j + 1] = v

\* C7: for AppExecuter.run and MayabatchExecuter.run alike, the list handed to
\* Popen holds the caller's positional arguments in their order and, for every
\* keyword argument key=value, the adjacent elements '-key' and value.
C7_ArgsForwarded ==
    \A n \in Calls :
        pstate[n] # "none" =>
            /\ IsSubseq(cargs[n], pargs[n])
            /\ \A j \in 1 .. Len(ckwargs[n]) :
                  HasFlag(pargs[n], ckwargs[n][j][1], ckwargs[n][j][2])

\* A Maya launch whose keyword's key reached Popen bare and whose value did not.
C7_KeywordLost ==
    \E n \in Calls :
        /\ pstate[n] # "none" /\ ClassOf(inst[n]) = "Maya" /\ ckwargs[n] # <<>>
        /\ \E j \in 1 .. Len(pargs[n]) : pargs[n][j] = ckwargs[n][1][1]
        /\ \A j \in 1 .. Len(pargs[n]) : pargs[n][j] # ckwargs[n][1][2]

\* The places where a printed line begins: 0 stands for the start of the text,
\* j for the newline character at position j.
LineBreaks(text) == {0} \cup {j \in 1 .. Len(text) : text[j] = "\n"}

\* The k-th place of LineBreaks, counted from 1.
LineBreak(text, k) ==
    CHOOSE b \in LineBreaks(text) :
        Cardinality({x \in LineBreaks(text) : x < b}) = k - 1

\* Where the line that begins after place b ends: before the next newline
\* character or at the end of the text.
LineEnd(text, b) ==
    IF \E j \in (b + 1) .. Len(text) : text[j] = "\n"
    THEN (CHOOSE j \in (b + 1) .. Len(text) :
             /\ text[j] = "\n"
             /\ \A x \in (b + 1) .. (j - 1) : text[x] # "\n") - 1
    ELSE Len(text)

\* The lines of a printed text: the text split at newline characters.
SplitLines(text) ==
    [k \in 1 .. Cardinality(LineBreaks(text)) |->
        SubSeq(text, LineBreak(text, k) + 1, LineEnd(text, LineBreak(text, k)))]

Printed == SplitLines(logOut)

LinesFit == \A j \in 1 .. Len(Printed) : Len(Printed[j]) <= logIn.width

\* C8 as stated: for every message and every width, every printed line is at
\* most width characters long, prefix and indentation included.
C8_EveryWidth == logPc = "done" => LinesFit

\* C8 (amended): for every message and every width greater than the length of
\* the 'HH:MM:SS  [LEVEL]  ' prefix, every printed line is at most width
\* characters long, prefix and indentation included.
C8_WidthBeyondPrefix ==
    (logPc = "done" /\ logIn.width > Len(LogPrefix(logIn.level))) => LinesFit

\* A message wrapped at the width: a full first line, and an indented
\* continuation line that carries text.
C8_Wrapped ==
    /\ logPc = "done"
    /\ logIn.width > Len(LogPrefix(logIn.level))
    /\ Len(Printed) >= 2
    /\ Len(Printed[1]) = logIn.width
    /\ Len(Printed[2]) > Len(LogIndent(logIn.level))
    /\ SubSeq(Printed[2], 1, Len(LogIndent(logIn.level))) = LogIndent(logIn.level)

\* C11: a subprocess is always notified by the notify of the executer class
\* that launched it, for any interleaving of launches by both classes.
C11_NotifiedByLauncher ==
    \A n \in Calls :
        \A j \in 1 .. Len(notified[n]) : notified[n][j][1] = ClassOf(inst[n])

\* MayabatchExecuter.notify received a process a plain AppExecuter launched,
\* which has no path_errors, and raised.
C11_MayaNotifyOfAppProcess ==
    \E n \in Calls :
        /\ ClassOf(inst[n]) = "App"
        /\ pattr[n] = None
        /\ notified[n] = << <<"Maya", "raised">> >>

\* run() has put process n into the queue.
WasPut(n) == pstate[n] # "none" /\ pc[n] \in {"finish", "done"}

Held(w, n) == \E j \in 1 .. Len(running[w]) : running[w][j] = n

\* C12: no tracked subprocess is ever lost: a subprocess run() has put into
\* the queue and that was not notified yet is in the PROCESSES queue or in the
\* `running` list of a watcher thread that is alive and will put it back.
C12_NeverLost ==
    \A n \in Calls :
        (WasPut(n) /\ notified[n] = <<>>) =>
            \/ InQueue(n)
            \/ \E w \in Calls : Alive(w) /\ Held(w, n)

\* A process that is still running is neither queued nor held by a live
\* watcher: the watcher that held it died in notify.
C12_Lost ==
    \E n \in Calls :
        /\ WasPut(n) /\ notified[n] = <<>> /\ pstate[n] = "running"
        /\ ~InQueue(n)
        /\ \E w \in Calls : crashed[w] /\ Held(w, n)
        /\ \A w \in Calls : ~(Alive(w) /\ Held(w, n))

====
